---- MODULE Spec2Model ----
(***************************************************************************)
(* A model of python/point_search.py: the QuadTree (add_point, all_points, *)
(* points_in_box, points_in_radius), make_tree, near_points,               *)
(* _quadratic_interpolate and newton_search.                               *)
(*                                                                         *)
(* Numbers.  The program computes with floats.  The model computes with    *)
(* integers counted in base units of 0.25e-6, so that the three constants  *)
(* of the program are whole numbers: the resolution 2.5, the pad 0.001 of  *)
(* make_tree and the width 0.000001 at which newton_search gives up.       *)
(* The data of a run (the coordinates of points and centroids, the radii)  *)
(* lies on a lattice of spacing Grid = scale / 4, where scale is the       *)
(* magnitude of the data: One (coordinates such as 8.0, as in the unit     *)
(* tests) or Micro (coordinates such as 8e-6).  Sums, differences,         *)
(* halvings and comparisons of such values are exact, in the model and in  *)
(* binary floating point alike.  A product is taken of lattice steps       *)
(* (value \div Grid), which is exact for values on the lattice and keeps   *)
(* the products within 32 bits.  The two values                            *)
(* that are irrational in general, halfwidth * sqrt(2) and the root        *)
(* returned by _quadratic_interpolate, are rounded to the lattice.         *)
(***************************************************************************)
EXTENDS Integers, Sequences, FiniteSets, TLC

VARIABLES
    scale,        \* magnitude of the data of this run, in base units
    tree,         \* the QuadTree: path from the root |-> node; empty before construction
    inserted,     \* history: the points whose add_point call returned normally
    call,         \* the operation called last, with its arguments
    ret,          \* what that call returned (or yielded, as a sequence)
    raised,       \* the exception that ended that call: its kind and the node it came from
    pc,           \* newton_search: "idle", "loop", "returned", "raised"
    low_radius, low_count, high_radius, high_count,
    evaluated     \* history: the radii newton_search has passed to near_points

vars == <<scale, tree, inserted, call, ret, raised, pc,
          low_radius, low_count, high_radius, high_count, evaluated>>

(***************************************************************************)
(* Units and program constants                                             *)
(***************************************************************************)
One == 4 * 1000000                    \* 1.0 in base units
Micro == One \div 1000000             \* 1e-6 in base units
MAX_TREE_RESOLUTION == (5 * One) \div 2
Pad == One \div 1000                  \* the 0.001 of make_tree
Tolerance == One \div 1000000         \* the 0.000001 of newton_search

Grid == scale \div 4
Steps(v) == v \div Grid
Sq(v) == Steps(v) * Steps(v)          \* v ** 2, in squared lattice steps
Abs(v) == IF v < 0 THEN -v ELSE v

Point(x, y) == [x |-> x, y |-> y]

RECURSIVE SeqMin(_), SeqMax(_)
SeqMin(s) == IF Len(s) = 1 THEN s[1]
             ELSE LET m == SeqMin(Tail(s)) IN IF s[1] < m THEN s[1] ELSE m
SeqMax(s) == IF Len(s) = 1 THEN s[1]
             ELSE LET m == SeqMax(Tail(s)) IN IF s[1] > m THEN s[1] ELSE m

(***************************************************************************)
(* QuadTree                                                                *)
(***************************************************************************)
Root == << >>
NoTree == [p \in {} |-> 0]
NoError == [kind |-> "none", at |-> Root]
AssertionError(path) == [kind |-> "AssertionError", at |-> path]

QuadTree(center, halfwidth) ==
    [center |-> center, width |-> halfwidth, points |-> << >>]

HasChild(t, path, q) == Append(path, q) \in DOMAIN t

_is_in_box(node, point) ==
    /\ point.x >= node.center.x - node.width
    /\ point.x <= node.center.x + node.width
    /\ point.y >= node.center.y - node.width
    /\ point.y <= node.center.y + node.width

max_radius_steps(node) ==
    \* halfwidth * sqrt(2), rounded up to the lattice: the least k with
    \* (k * Grid)^2 >= 2 * width^2, computed in units of g, which divides both
    LET g == IF node.width % Grid = 0 THEN Grid ELSE Pad
        w == node.width \div g
        s == Grid \div g
    IN  CHOOSE k \in 0..(2 * (Steps(node.width) + 1)) :
            /\ (k * s) * (k * s) >= 2 * w * w
            /\ k = 0 \/ ((k - 1) * s) * ((k - 1) * s) < 2 * w * w

max_radius(t) == max_radius_steps(t[Root]) * Grid

Quadrant(node, point) ==
    IF point.x < node.center.x
    THEN (IF point.y < node.center.y THEN "ll" ELSE "ul")
    ELSE (IF point.y < node.center.y THEN "lr" ELSE "ur")

ChildCenterFullOffset(node, q) ==
    \* a slip: the child's center offset by the whole halfwidth
    Point(IF q \in {"ll", "ul"} THEN node.center.x - node.width
                                ELSE node.center.x + node.width,
          IF q \in {"ll", "lr"} THEN node.center.y - node.width
                                ELSE node.center.y + node.width)

ChildCenter(node, q) ==
    Point(IF q \in {"ll", "ul"} THEN node.center.x - node.width \div 2
                                ELSE node.center.x + node.width \div 2,
          IF q \in {"ll", "lr"} THEN node.center.y - node.width \div 2
                                ELSE node.center.y + node.width \div 2)

ChildNode(node, q) == QuadTree(ChildCenter(node, q), node.width \div 2)

StoredOnce(points, point) ==
    \* a slip: the leaf list kept free of repetitions
    IF \E i \in DOMAIN points : points[i] = point THEN points ELSE Append(points, point)

Stored(points, point) == Append(points, point)

RECURSIVE add_point(_, _, _)
add_point(t, path, point) ==
    LET node == t[path] IN
    IF ~_is_in_box(node, point)
    THEN [tree |-> t, raised |-> AssertionError(path)]
    ELSE IF node.width <= MAX_TREE_RESOLUTION
    THEN [tree |-> [t EXCEPT ![path].points = Stored(@, point)],
          raised |-> NoError]
    ELSE LET q == Quadrant(node, point)
             child == Append(path, q)
             t1 == IF HasChild(t, path, q) THEN t
                   ELSE t @@ (child :> ChildNode(node, q))
         IN  add_point(t1, child, point)

RECURSIVE all_points(_, _)
all_points(t, path) ==
    LET sub(q) == IF HasChild(t, path, q) THEN all_points(t, Append(path, q))
                  ELSE << >>
    IN  t[path].points \o sub("ll") \o sub("ul") \o sub("lr") \o sub("ur")

InBox(point, lower_left, upper_right) ==
    /\ point.x >= lower_left.x /\ point.y >= lower_left.y
    /\ point.x <= upper_right.x /\ point.y <= upper_right.y

DescendIfInside(node, q, lower_left, upper_right) ==
    \* a slip: a child is visited only if the whole box lies on its side of the center
    /\ IF q \in {"ll", "ul"} THEN upper_right.x < node.center.x
                             ELSE lower_left.x > node.center.x
    /\ IF q \in {"ll", "lr"} THEN upper_right.y < node.center.y
                             ELSE lower_left.y > node.center.y

Descend(node, q, lower_left, upper_right) ==
    /\ IF q \in {"ll", "ul"} THEN lower_left.x < node.center.x
                             ELSE upper_right.x > node.center.x
    /\ IF q \in {"ll", "lr"} THEN lower_left.y < node.center.y
                             ELSE upper_right.y > node.center.y

RECURSIVE points_in_box(_, _, _, _)
points_in_box(t, path, lower_left, upper_right) ==
    LET node == t[path]
        sub(q) == IF Descend(node, q, lower_left, upper_right) /\ HasChild(t, path, q)
                  THEN points_in_box(t, Append(path, q), lower_left, upper_right)
                  ELSE << >>
    IN  SelectSeq(node.points, LAMBDA p : InBox(p, lower_left, upper_right))
            \o sub("ll") \o sub("ul") \o sub("lr") \o sub("ur")

Rejects(node, centroid, radius) ==
    \/ Abs(centroid.x - node.center.x) > radius + node.width
    \/ Abs(centroid.y - node.center.y) > radius + node.width

WithinRadius(point, centroid, radius) ==
    Sq(point.x - centroid.x) + Sq(point.y - centroid.y) <= Sq(radius)

points_in_radius(t, centroid, radius) ==
    IF Rejects(t[Root], centroid, radius) THEN << >>
    ELSE SelectSeq(points_in_box(t, Root,
                                 Point(centroid.x - radius, centroid.y - radius),
                                 Point(centroid.x + radius, centroid.y + radius)),
                   LAMBDA p : WithinRadius(p, centroid, radius))

Range(s) == {s[i] : i \in DOMAIN s}

RECURSIVE add_all(_, _)
add_all(t, points) ==
    \* for point in points: tree.add_point(point), stopping at the first exception
    IF points = << >> THEN [tree |-> t, raised |-> NoError]
    ELSE LET r == add_point(t, Root, Head(points))
         IN  IF r.raised # NoError THEN r ELSE add_all(r.tree, Tail(points))

make_tree(points) ==
    LET xs == [i \in DOMAIN points |-> points[i].x]
        ys == [i \in DOMAIN points |-> points[i].y]
        xmin == SeqMin(xs)
        xmax == SeqMax(xs)
        ymin == SeqMin(ys)
        ymax == SeqMax(ys)
        extent == IF xmax - xmin > ymax - ymin THEN xmax - xmin ELSE ymax - ymin
        t == Root :> QuadTree(Point((xmax + xmin) \div 2, (ymax + ymin) \div 2),
                              extent \div 2 + Pad)
    IN  add_all(t, points)

near_points(t, centroids, radius) ==
    UNION {Range(points_in_radius(t, centroids[i], radius)) : i \in DOMAIN centroids}

(***************************************************************************)
(* _quadratic_interpolate, in lattice steps.  With d = x1*x2*(x2-x1) > 0,  *)
(* a = A/d and b = B/d, the value returned is (sqrt(D) - B) / (2*A) where  *)
(* D = 4*A*target_y*d + B^2 has the sign of 4*a*target_y + b^2.  The model *)
(* returns the lattice value at or next below it (LeqRoot(k) states that   *)
(* k is at most the value), saturated one step outside [0, x2].            *)
(***************************************************************************)
Returned(v) == [raised |-> "none", value |-> v]
Raises(kind) == [raised |-> kind, value |-> 0]

Largest(S) == CHOOSE k \in S : \A j \in S : j <= k

InterpolateFromOrigin(x2, y2, target_y) ==
    \* x2 * math.sqrt(target_y / y2)
    IF y2 = 0 THEN Raises("ZeroDivisionError")
    ELSE IF target_y < 0 THEN Raises("ValueError")
    ELSE Returned(Largest({k \in 0..(x2 + 1) : k * k * y2 <= x2 * x2 * target_y}))

InterpolateGeneral(x1, y1, x2, y2, target_y) ==
    LET d == x1 * x2 * (x2 - x1)
        A == x1 * y2 - x2 * y1
        B == x2 * x2 * y1 - x1 * x1 * y2
        D == 4 * A * target_y * d + B * B
        LeqRoot(k) == LET v == 2 * A * k + B
                      IN  IF A > 0 THEN v <= 0 \/ v * v <= D
                                   ELSE v >= 0 /\ v * v >= D
    IN  IF d = 0 THEN Raises("ZeroDivisionError")
        ELSE IF D < 0 THEN Raises("ValueError")
        ELSE IF A = 0 THEN Raises("ZeroDivisionError")
        ELSE Returned(Largest({-1} \cup {k \in 0..(x2 + 1) : LeqRoot(k)}))

_quadratic_interpolate(x1, y1, x2, y2, target_y) ==
    IF ~(x2 > x1 /\ y2 >= y1 /\ x1 >= 0 /\ y1 >= 0) THEN Raises("AssertionError")
    ELSE IF x1 = 0 THEN InterpolateFromOrigin(x2, y2, target_y)
    ELSE InterpolateGeneral(x1, y1, x2, y2, target_y)

(***************************************************************************)
(* Inputs                                                                  *)
(***************************************************************************)
MaxPoints == 3          \* add_point calls on one tree (tree specification)
MaxSearchPoints == 4    \* points of a tree handed to newton_search

At(x, y) == Point(x * scale, y * scale)
Quarters(n) == n * Grid                  \* a radius, in quarters of the data's unit

TreePoints == {At(0, 0), At(4, 4), At(8, 8), At(-8, -8), At(9, 0)}
PointLists == UNION {[1..n -> TreePoints] : n \in 1..MaxPoints}
Boxes == {<<At(-1, -1), At(0, 0)>>, <<At(0, 0), At(4, 4)>>,
          <<At(-8, -8), At(8, 8)>>, <<At(1, 1), At(3, 3)>>}
CentroidLists == {<< >>, <<At(0, 0)>>, <<At(4, 5)>>, <<At(10, 1)>>,
                  <<At(6, 6), At(-6, -6)>>, <<At(0, 0), At(4, 5)>>}
Radii == {Quarters(0), Quarters(12), Quarters(22), Quarters(28), Quarters(48)}

\* The list of test_newton_search, and the lists made of some of its entries
SearchPoints == <<At(0, 0), At(-8, -8), At(8, 8), At(0, 8), At(8, 0), At(0, 0), At(4, 4)>>
Pick(I) == [j \in 1..Cardinality(I) |->
               SearchPoints[CHOOSE i \in I : Cardinality({k \in I : k < i}) = j - 1]]
SearchLists == {Pick(I) : I \in {J \in SUBSET DOMAIN SearchPoints :
                                     Cardinality(J) <= MaxSearchPoints}}
SearchCentroids == {<< >>, <<At(0, 0)>>, <<At(4, 5)>>, <<At(4, 4)>>,
                    <<At(6, 6), At(-6, -6)>>}
SearchRadii(t) == {Quarters(0), Quarters(22), Quarters(28), Quarters(48),
                   max_radius(t) \div 2}
Targets == 0..(MaxSearchPoints)

(***************************************************************************)
(* Operations on the tree                                                  *)
(***************************************************************************)
Built == DOMAIN tree # {}
Idle == pc # "loop"

SearchUnchanged == UNCHANGED <<pc, low_radius, low_count, high_radius, high_count, evaluated>>

Construct(center, halfwidth) ==
    /\ ~Built
    /\ tree' = (Root :> QuadTree(center, halfwidth))
    /\ call' = [op |-> "QuadTree", args |-> <<center, halfwidth>>]
    /\ ret' = << >>
    /\ raised' = NoError
    /\ UNCHANGED <<scale, inserted>>
    /\ SearchUnchanged

MakeTreeCall(points) ==
    /\ ~Built
    /\ LET r == make_tree(points)
       IN  /\ tree' = r.tree
           /\ raised' = r.raised
           /\ inserted' = IF r.raised = NoError THEN points ELSE inserted
    /\ call' = [op |-> "make_tree", args |-> <<points>>]
    /\ ret' = << >>
    /\ UNCHANGED scale
    /\ SearchUnchanged

AddPointCall(point) ==
    /\ Built /\ Idle
    /\ Len(inserted) < MaxPoints
    /\ LET r == add_point(tree, Root, point)
       IN  /\ tree' = r.tree
           /\ raised' = r.raised
           /\ inserted' = IF r.raised = NoError THEN Append(inserted, point) ELSE inserted
    /\ call' = [op |-> "add_point", args |-> <<point>>]
    /\ ret' = << >>
    /\ UNCHANGED scale
    /\ SearchUnchanged

AllPointsCall ==
    /\ Built /\ Idle
    /\ call' = [op |-> "all_points", args |-> << >>]
    /\ ret' = all_points(tree, Root)
    /\ raised' = NoError
    /\ UNCHANGED <<scale, tree, inserted>>
    /\ SearchUnchanged

PointsInBoxCall(lower_left, upper_right) ==
    /\ Built /\ Idle
    /\ call' = [op |-> "points_in_box", args |-> <<lower_left, upper_right>>]
    /\ ret' = points_in_box(tree, Root, lower_left, upper_right)
    /\ raised' = NoError
    /\ UNCHANGED <<scale, tree, inserted>>
    /\ SearchUnchanged

NearPointsCall(centroids, radius) ==
    /\ Built /\ Idle
    /\ call' = [op |-> "near_points", args |-> <<centroids, radius>>]
    /\ ret' = near_points(tree, centroids, radius)
    /\ raised' = NoError
    /\ UNCHANGED <<scale, tree, inserted>>
    /\ SearchUnchanged

(***************************************************************************)
(* newton_search: the call up to the loop, one iteration, the exit         *)
(***************************************************************************)
IntResult(radius, count) == [radius |-> radius, count |-> count, type |-> "int"]
SetResult(radius, points) == [radius |-> radius, count |-> points, type |-> "set"]
RaisedIn(kind, function) == [kind |-> kind, at |-> <<function>>]

Count(t, centroids, radius) == Cardinality(near_points(t, centroids, radius))

ConvergedNever(count, target_count) == FALSE    \* a slip: the early return left out

Converged(count, target_count) == count = target_count

RebracketNever(radius, count, top_radius, top_count, target_count) ==
    \* a slip: the overshooting first guess kept as the low end
    [low_radius |-> radius, low_count |-> count,
     high_radius |-> top_radius, high_count |-> top_count]

Rebracket(radius, count, top_radius, top_count, target_count) ==
    \* lines 230-234: the bracket newton_search enters its loop with
    IF count > target_count
    THEN [low_radius |-> 0, low_count |-> 0, high_radius |-> radius, high_count |-> count]
    ELSE [low_radius |-> radius, low_count |-> count,
          high_radius |-> top_radius, high_count |-> top_count]

Narrow(mid_radius, mid_count, target_count) ==
    \* lines 244-249: the bracket after a trial that did not converge
    IF mid_count < target_count
    THEN [low_radius |-> mid_radius, low_count |-> mid_count,
          high_radius |-> high_radius, high_count |-> high_count]
    ELSE [low_radius |-> low_radius, low_count |-> low_count,
          high_radius |-> mid_radius, high_count |-> mid_count]

SetBracket(b) ==
    /\ low_radius' = b.low_radius
    /\ low_count' = b.low_count
    /\ high_radius' = b.high_radius
    /\ high_count' = b.high_count

BracketUnchanged == UNCHANGED <<low_radius, low_count, high_radius, high_count>>

Return(result) ==
    /\ pc' = "returned"
    /\ ret' = result
    /\ raised' = NoError

Raise(kind, function) ==
    /\ pc' = "raised"
    /\ ret' = << >>
    /\ raised' = RaisedIn(kind, function)

NewtonSearchCall(centroids, radius, target_count) ==
    /\ Built /\ pc = "idle"               \* one search in a behaviour
    /\ call' = [op |-> "newton_search", args |-> <<centroids, radius, target_count>>]
    /\ UNCHANGED <<scale, tree, inserted>>
    /\ IF target_count <= 0
       THEN /\ Return(SetResult(0, near_points(tree, centroids, 0)))
            /\ evaluated' = {0}
            /\ BracketUnchanged
       ELSE LET count == Count(tree, centroids, radius)
                top_radius == max_radius(tree)
                top_count == Cardinality(Range(all_points(tree, Root)))
            IN  /\ evaluated' = {radius}
                /\ IF Converged(count, target_count)
                   THEN Return(IntResult(radius, count)) /\ BracketUnchanged
                   ELSE IF top_count <= target_count
                   THEN Return(IntResult(top_radius, top_count)) /\ BracketUnchanged
                   ELSE /\ SetBracket(Rebracket(radius, count, top_radius, top_count,
                                                target_count))
                        /\ pc' = "loop"
                        /\ ret' = << >>
                        /\ raised' = NoError

NewtonIterate ==
    /\ pc = "loop"
    /\ high_radius - low_radius > Tolerance
    /\ UNCHANGED <<scale, tree, inserted, call>>
    /\ LET centroids == call.args[1]
           target_count == call.args[3]
           q == _quadratic_interpolate(Steps(low_radius), low_count,
                                       Steps(high_radius), high_count, target_count)
           mid_radius == q.value * Grid
           mid_count == Count(tree, centroids, mid_radius)
       IN  IF q.raised # "none"
           THEN Raise(q.raised, "_quadratic_interpolate")
                    /\ BracketUnchanged /\ UNCHANGED evaluated
           ELSE IF ~(mid_radius < high_radius /\ mid_radius > low_radius)
           THEN Raise("AssertionError", "newton_search")
                    /\ BracketUnchanged /\ UNCHANGED evaluated
           ELSE /\ evaluated' = evaluated \cup {mid_radius}
                /\ IF 2 * Abs(mid_count - target_count) < 1
                   THEN Return(IntResult(mid_radius, mid_count)) /\ BracketUnchanged
                   ELSE /\ SetBracket(Narrow(mid_radius, mid_count, target_count))
                        /\ UNCHANGED <<pc, ret, raised>>

NewtonGiveUp ==
    /\ pc = "loop"
    /\ ~(high_radius - low_radius > Tolerance)
    /\ Return(IntResult(high_radius, high_count))
    /\ BracketUnchanged
    /\ UNCHANGED <<scale, tree, inserted, call, evaluated>>

(***************************************************************************)
(* Specifications                                                          *)
(***************************************************************************)
NoCall == [op |-> "none", args |-> << >>]

SearchIdle ==
    /\ pc = "idle"
    /\ low_radius = 0 /\ low_count = 0 /\ high_radius = 0 /\ high_count = 0
    /\ evaluated = {}

\* Unit-scale data: a tree is built (QuadTree and add_point, or make_tree) and queried
Init ==
    /\ scale = One
    /\ tree = NoTree
    /\ inserted = << >>
    /\ call = NoCall
    /\ ret = << >>
    /\ raised = NoError
    /\ SearchIdle

Next ==
    \/ Construct(At(0, 0), 8 * scale)
    \/ \E points \in PointLists : MakeTreeCall(points)
    \/ \E point \in TreePoints : AddPointCall(point)
    \/ AllPointsCall
    \/ \E box \in Boxes : PointsInBoxCall(box[1], box[2])
    \/ \E centroids \in CentroidLists, radius \in Radii : NearPointsCall(centroids, radius)

Spec == Init /\ [][Next]_vars

\* Micro-scale data: newton_search on a tree that QuadTree and add_point built.
\* At this scale the lattice spacing (0.25e-6) is below the width 0.000001 at
\* which the loop gives up, as the spacing of floats is for data of any
\* ordinary magnitude, so the loop can narrow its bracket down to that width.
SearchInit ==
    /\ scale = Micro
    /\ \E points \in SearchLists :
          /\ tree = add_all(Root :> QuadTree(At(0, 0), 8 * scale), points).tree
          /\ inserted = points
    /\ call = NoCall
    /\ ret = << >>
    /\ raised = NoError
    /\ SearchIdle

SearchNext ==
    \/ \E centroids \in SearchCentroids, radius \in SearchRadii(tree), target_count \in Targets :
          NewtonSearchCall(centroids, radius, target_count)
    \/ NewtonIterate
    \/ NewtonGiveUp

SearchSpec == SearchInit /\ [][SearchNext]_vars

(***************************************************************************)
(* What the calls should return, stated over the history of insertions     *)
(***************************************************************************)
Occurrences(s, p) == Cardinality({i \in DOMAIN s : s[i] = p})
SameBag(s1, s2) ==
    /\ Len(s1) = Len(s2)
    /\ \A p \in Range(s1) \cup Range(s2) : Occurrences(s1, p) = Occurrences(s2, p)
Depth == IF Built THEN Largest({Len(path) : path \in DOMAIN tree}) ELSE 0

Called(op) == call.op = op
Centroids == call.args[1]
Radius == call.args[2]
Target == call.args[3]

NearBy(points, centroids, radius) ==
    {p \in Range(points) : \E i \in DOMAIN centroids :
        Sq(p.x - centroids[i].x) + Sq(p.y - centroids[i].y) <= Sq(radius)}

\* C1: near_points returns exactly the distinct stored points within the radius
\* of some centroid; with radius 0, the stored points equal to a centroid.
NearPointsExact ==
    Called("near_points") => ret = NearBy(inserted, Centroids, Radius)

\* C2: points_in_box yields exactly the stored points of the closed rectangle,
\* each as often as it was inserted: the pruning skips no child holding one.
PointsInBoxExact ==
    Called("points_in_box") =>
        SameBag(ret, SelectSeq(inserted, LAMBDA p :
                                   /\ call.args[1].x <= p.x /\ p.x <= call.args[2].x
                                   /\ call.args[1].y <= p.y /\ p.y <= call.args[2].y))

\* C3: the count newton_search returns is the number of points near the
\* centroids at the radius it returns, on every return path.
ReturnedCountIsAchieved ==
    (Called("newton_search") /\ pc = "returned") =>
        /\ ret.type = "int"
        /\ ret.count = Cardinality(near_points(tree, Centroids, ret.radius))

\* C4: newton_search ends by returning a (radius, count) pair; it never ends
\* in a failed assertion or an arithmetic error.
NewtonSearchNeverRaises ==
    Called("newton_search") => pc # "raised"

\* C5: an iteration of the loop that does not converge leaves a bracket that
\* lies inside the one before and is strictly narrower, so the loop exits by
\* convergence or by the bracket width.
IterationConvergesOrShrinks ==
    [][(pc = "loop" /\ high_radius - low_radius > Tolerance) =>
          \/ pc' = "returned" /\ ret'.count = Target
          \/ /\ pc' = "loop"
             /\ low_radius <= low_radius' /\ high_radius' <= high_radius
             /\ low_radius' < high_radius'
             /\ high_radius' - low_radius' < high_radius - low_radius]_vars

\* C6: when the target is positive and the count at the caller's radius is
\* the target, newton_search returns that radius and the target, having
\* evaluated no other radius.
ImmediateConvergence ==
    (Called("newton_search") /\ Target > 0
        /\ Cardinality(near_points(tree, Centroids, Radius)) = Target) =>
        /\ pc = "returned"
        /\ ret = [radius |-> Radius, count |-> Target, type |-> "int"]
        /\ evaluated = {Radius}

ImmediateConvergenceSeen ==
    /\ Called("newton_search") /\ pc = "returned"
    /\ Centroids = <<At(4, 5)>> /\ Radius = Quarters(22) /\ Target = 3
    /\ ret.radius = Quarters(22) /\ ret.count = 3
    /\ max_radius(tree) > Radius

\* C7: with the centroids fixed, near_points at a smaller radius is a subset
\* of near_points at a larger one.
NearPointsMonotone ==
    Called("near_points") =>
        \A r1 \in Radii : r1 < Radius => near_points(tree, Centroids, r1) \subseteq ret

NearPointsGrowSeen ==
    /\ Called("near_points") /\ Depth = 2
    /\ \E r1 \in Radii :
          /\ r1 < Radius
          /\ near_points(tree, Centroids, r1) # {}
          /\ near_points(tree, Centroids, r1) # ret
          /\ near_points(tree, Centroids, r1) \subseteq ret

\* C8: all_points yields the inserted points and no others, a coordinate pair
\* inserted k times appearing k times.
AllPointsAreTheInserted ==
    Called("all_points") => SameBag(ret, inserted)

AllPointsWithRepeatSeen ==
    /\ Called("all_points") /\ Depth = 2
    /\ Len(ret) = MaxPoints
    /\ \E p \in Range(inserted) : Occurrences(ret, p) = 2

\* C9: every point stored under a node lies in that node's closed square, and
\* the containment assertion fails at the root or not at all.
StoredPointsAreContained ==
    /\ \A path \in DOMAIN tree :
          \A p \in Range(all_points(tree, path)) : _is_in_box(tree[path], p)
    /\ raised.kind = "AssertionError" => raised.at = Root

ContainedOnChildEdgeSeen ==
    /\ Depth = 2 /\ Len(inserted) >= 2
    /\ \E path \in DOMAIN tree :
          /\ Len(path) = 2
          /\ \E p \in Range(tree[path].points) :
                p.x = tree[path].center.x - tree[path].width
    /\ \E path \in DOMAIN tree :
          /\ Len(path) = 2
          /\ \E p \in Range(tree[path].points) :
                p.x = tree[path].center.x + tree[path].width

\* C10: at the start of every iteration of the loop of newton_search, the
\* best-effort exit included, low_count <= target_count <= high_count.
BracketHoldsTarget ==
    (Called("newton_search") /\ pc = "loop") =>
        low_count <= Target /\ Target <= high_count

RebracketedGiveUpSeen ==
    /\ Called("newton_search") /\ pc = "loop"
    /\ ~(high_radius - low_radius > Tolerance)
    /\ Cardinality(near_points(tree, Centroids, Radius)) > Target
    /\ low_radius > 0 /\ high_radius < Radius

====
